---- MODULE Spec2Model ----
(***************************************************************************)
(* LinearRecurrenceSequence (sage/combinat/linear_recurrence_sequences.py) *)
(* as a state machine: a caller owns two lists, hands them to the          *)
(* constructor, and then queries the constructed object.  Python lists are *)
(* sequences (1-based here, 0-based in the source); a list is a heap cell, *)
(* so that `self.u = u` stores a reference and not a copy.                 *)
(***************************************************************************)
EXTENDS Integers, Sequences, FiniteSets, TLC

VARIABLES lists, given, self, outcome, res, mutations

vars == <<lists, given, self, outcome, res, mutations>>

\* ------------------------------------------------------------------ bounds
MaxLen == 3          \* the caller's lists have 0..MaxLen entries
MaxN == 5            \* term indices -MaxNeg..MaxN
MaxNeg == 2
MaxMod == 3          \* moduli -MaxMod..MaxMod
MaxMut == 1          \* caller mutations of the lists it passed (SpecAlias)

InitVals == {0, 1}        \* entries of u
CoefVals == {-1, 0, 1}    \* entries of a

\* ------------------------------------------------------- program constants
MinOrder == 3        \* `elif self.d < 3`
BinaryOrder == 2     \* `if self.d < 2`

SeqsUpTo(S, k) == UNION {[1..n -> S] : n \in 0..k}

NoResult == [op |-> "none"]
NoObject == [u |-> "null", a |-> "null", d |-> 0]

Value(x) == [kind |-> "value", val |-> x]
Raise(e) == [kind |-> e]

\* --------------------------------------------------------- list primitives
\* the list with entries f[1], ..., f[n], as a tuple
List(f) == SubSeq(f, 1, Len(f))

\* s[i] of a list that is still to be computed
Nth(s, i) == Head(SubSeq(s, i, i))

RECURSIVE SumUpTo(_, _)
SumUpTo(s, k) == IF k = 0 THEN 0 ELSE Nth(s, k) + SumUpTo(s, k - 1)

\* sum(s)
SumSeq(s) == SumUpTo(s, Len(s))

\* reversed(s)
Reversed(s) == List([i \in 1..Len(s) |-> Nth(s, Len(s) + 1 - i)])

\* Python list equality: same length, then element by element
ListEq(x, y) ==
    IF Len(x) # Len(y) THEN FALSE
    ELSE \A i \in 1..Len(x) : Nth(x, i) = Nth(y, i)

\* ----------------------------------------------------------- __init__
\* the outcome of the checks of __init__ on the two lists
InitOutcomeSwapped(u, a) ==
    IF Len(u) < MinOrder
    THEN IF Len(u) < BinaryOrder THEN "UnsupportedOrder"
         ELSE "UseBinarySpecialization"
    ELSE IF Len(u) # Len(a) THEN "LengthMismatch" ELSE "ok"

InitOutcome(u, a) ==
    IF Len(u) # Len(a) THEN "LengthMismatch"
    ELSE IF Len(u) < MinOrder
         THEN IF Len(u) < BinaryOrder THEN "UnsupportedOrder"
              ELSE "UseBinarySpecialization"
         ELSE "ok"

\* self.u = u; self.a = a; self.d = len(u): references, and the length once
StoreFields(uref, aref, heap) == [u |-> uref, a |-> aref, d |-> Len(heap[uref])]

Init ==
    /\ lists \in [{"ru", "ra"} -> SeqsUpTo(InitVals \cup CoefVals, MaxLen)]
    /\ lists["ru"] \in SeqsUpTo(InitVals, MaxLen)
    /\ lists["ra"] \in SeqsUpTo(CoefVals, MaxLen)
    /\ given = [u |-> lists["ru"], a |-> lists["ra"]]
    /\ self = NoObject
    /\ outcome = "pending"
    /\ res = NoResult
    /\ mutations = 0

New ==
    /\ outcome = "pending"
    /\ self' = StoreFields("ru", "ra", lists)
    /\ outcome' = InitOutcome(lists["ru"], lists["ra"])
    /\ UNCHANGED <<lists, given, res, mutations>>

\* the lists the object's fields refer to
U == lists[self.u]
A == lists[self.a]

Ready == outcome = "ok" /\ res = NoResult

\* the caller drops the returned value and is free to call again
Return ==
    /\ res # NoResult
    /\ res' = NoResult
    /\ UNCHANGED <<lists, given, self, outcome, mutations>>

\* ------------------------------------------------ rings, vectors, matrices
\* Integers(modulus): the ring is named by its order, 0 for ZZ; a negative
\* order is replaced by its absolute value
IntegersRing(modulus) == IF modulus < 0 THEN -modulus ELSE modulus

\* the image of the integer x in the ring R
Coerce(R, x) == IF R = 0 THEN x ELSE x % R

\* vector(R, u)
vector(R, u) == List([i \in 1..Len(u) |-> Coerce(R, Nth(u, i))])

\* companion_matrix(poly, format='bottom') of a monic coefficient list
\* (constant term first): ones above the diagonal, last row the negated
\* coefficients
companion_matrix(poly) ==
    LET n == Len(poly) - 1
    IN List([i \in 1..n |-> List([j \in 1..n |->
            IF i < n THEN (IF j = i + 1 THEN 1 ELSE 0) ELSE -Nth(poly, j)])])

\* M[i][j]
Entry(M, i, j) == Nth(Nth(M, i), j)

\* M.change_ring(R)
change_ring(M, R) ==
    List([i \in 1..Len(M) |-> List([j \in 1..Len(M) |-> Coerce(R, Entry(M, i, j))])])

Identity(R, n) ==
    List([i \in 1..n |-> List([j \in 1..n |-> Coerce(R, IF i = j THEN 1 ELSE 0)])])

MatMul(R, X, Y) ==
    LET n == Len(X)
    IN List([i \in 1..n |-> List([j \in 1..n |->
            Coerce(R, SumSeq(List([k \in 1..n |-> Entry(X, i, k) * Entry(Y, k, j)])))])])

MatVec(R, X, v) ==
    List([i \in 1..Len(X) |->
            Coerce(R, SumSeq(List([k \in 1..Len(v) |-> Entry(X, i, k) * Nth(v, k)])))])

\* F**n for n >= 0, by repeated squaring
RECURSIVE MatPow(_, _, _)
MatPow(R, X, n) ==
    IF n = 0 THEN Identity(R, Len(X))
    ELSE IF n = 1 THEN X
    ELSE LET h == MatPow(R, X, n \div 2)
             sq == MatMul(R, h, h)
         IN IF n % 2 = 0 THEN sq ELSE MatMul(R, sq, X)

\* ---- negative exponents: F**n is (~F)**(-n)
RECURSIVE GCD(_, _)
GCD(x, y) == IF y = 0 THEN (IF x < 0 THEN -x ELSE x) ELSE GCD(y, x % (IF y < 0 THEN -y ELSE y))

\* a rational in lowest terms with positive denominator
Frac(p, q) ==
    LET g == GCD(p, q)
        sgn == IF q < 0 THEN -1 ELSE 1
    IN [num |-> sgn * (p \div g), den |-> sgn * (q \div g)]

FracAdd(x, y) == Frac(x.num * y.den + y.num * x.den, x.den * y.den)
FracSub(x, y) == Frac(x.num * y.den - y.num * x.den, x.den * y.den)
FracMul(x, y) == Frac(x.num * y.num, x.den * y.den)
FracQuo(x, y) == Frac(x.num * y.den, x.den * y.num)
FracScale(k, x) == Frac(k * x.num, x.den)
FracDiv(x, k) == Frac(x.num, x.den * k)

RECURSIVE FracSumUpTo(_, _)
FracSumUpTo(s, k) == IF k = 0 THEN Frac(0, 1) ELSE FracAdd(Nth(s, k), FracSumUpTo(s, k - 1))

FracSum(s) == FracSumUpTo(s, Len(s))

\* ~F applied to w over QQ, F a bottom companion matrix with F[d][1] # 0:
\* the window moves one index back
InverseStepQQ(F, w) ==
    LET d == Len(F)
        known == FracSum(List([j \in 1..(d - 1) |-> FracScale(Entry(F, d, j + 1), Nth(w, j))]))
    IN List([i \in 1..d |-> IF i = 1 THEN FracDiv(FracSub(Nth(w, d), known), Entry(F, d, 1))
                            ELSE Nth(w, i - 1)])

\* the same over Z/R, inv the inverse of F[d][1] in Z/R
InverseStepMod(R, F, w, inv) ==
    LET d == Len(F)
        known == SumSeq(List([j \in 1..(d - 1) |-> Entry(F, d, j + 1) * Nth(w, j)]))
    IN List([i \in 1..d |-> IF i = 1 THEN Coerce(R, (Nth(w, d) - known) * inv)
                            ELSE Nth(w, i - 1)])

RECURSIVE BackQQ(_, _, _)
BackQQ(F, w, k) == IF k = 0 THEN w ELSE BackQQ(F, InverseStepQQ(F, w), k - 1)

RECURSIVE BackMod(_, _, _, _, _)
BackMod(R, F, w, inv, k) ==
    IF k = 0 THEN w ELSE BackMod(R, F, InverseStepMod(R, F, w, inv), inv, k - 1)

\* list(F**n * v)[0] for n < 0: the determinant of F is +-F[d][1]
NegativePower(R, F, v, n) ==
    LET d == Len(F)
        lead == Entry(F, d, 1)
    IN IF R = 0
       THEN IF lead = 0 THEN Raise("ZeroDivisionError")
            ELSE Value(Head(BackQQ(F, List([i \in 1..d |-> Frac(Nth(v, i), 1)]), -n)))
       ELSE IF GCD(lead, R) # 1 THEN Raise("ZeroDivisionError")
            ELSE LET inv == CHOOSE x \in 0..(R - 1) : Coerce(R, lead * x) = Coerce(R, 1)
                 IN Value(Head(BackMod(R, F, v, inv, -n)))

\* ------------------------------------------------------------- __call__
\* [-c for c in reversed(self.a)]+[1] in __call__
CallCharpolyUnreversed(a) == List([i \in 1..Len(a) |-> -Nth(a, i)]) \o <<1>>

CallCharpoly(a) == List([i \in 1..Len(a) |-> -Nth(Reversed(a), i)]) \o <<1>>

\* R = Integers(modulus)
CallRingDefault(modulus) == IntegersRing(0)

CallRing(modulus) == IntegersRing(modulus)

\* v = vector(R, self.u)
CallVectorUnreduced(R, u) == vector(0, u)

CallVector(R, u) == vector(R, u)

\* self(n, modulus): no check of n or modulus precedes the arithmetic; the
\* product F**n * v needs len(self.a) = len(self.u)
Call(u, a, n, modulus) ==
    LET R == CallRing(modulus)
        F == change_ring(companion_matrix(CallCharpoly(a)), R)
        v == CallVector(R, u)
    IN IF Len(u) # Len(a) THEN Raise("TypeError")
       ELSE IF n >= 0 THEN Value(Head(MatVec(R, MatPow(R, F, n), v)))
       ELSE NegativePower(R, F, v, n)

Term(n, modulus) ==
    /\ Ready
    /\ res' = [op |-> "term", n |-> n, modulus |-> modulus,
               out |-> Call(U, A, n, modulus)]
    /\ UNCHANGED <<lists, given, self, outcome, mutations>>

\* ------------------------------------------- characteristic_polynomial
\* R(coeffs) for R = PolynomialRing(Integers(),'x'): the coefficient list,
\* constant term first, without its high zero coefficients
RECURSIVE PolynomialRingElement(_)
PolynomialRingElement(coeffs) ==
    IF coeffs = <<>> THEN <<>>
    ELSE IF Nth(coeffs, Len(coeffs)) = 0
         THEN PolynomialRingElement(SubSeq(coeffs, 1, Len(coeffs) - 1))
         ELSE coeffs

\* [-c for c in reversed(self.a)]+[1] in characteristic_polynomial
CharPolyCoeffsUnsigned(a) == Reversed(a) \o <<1>>

CharPolyCoeffs(a) == List([i \in 1..Len(a) |-> -Nth(Reversed(a), i)]) \o <<1>>

characteristic_polynomial(u, a) == PolynomialRingElement(CharPolyCoeffs(a))

CharacteristicPolynomial ==
    /\ Ready
    /\ res' = [op |-> "charpoly", out |-> Value(characteristic_polynomial(U, A))]
    /\ UNCHANGED <<lists, given, self, outcome, mutations>>

\* ------------------------------------------------ transformation_matrix
\* [-c for c in reversed(self.a)]+[1] in transformation_matrix
TransCharpolyUnreversed(a) == List([i \in 1..Len(a) |-> -Nth(a, i)]) \o <<1>>

TransCharpoly(a) == List([i \in 1..Len(a) |-> -Nth(Reversed(a), i)]) \o <<1>>

transformation_matrix(u, a) == companion_matrix(TransCharpoly(a))

TransformationMatrix ==
    /\ Ready
    /\ res' = [op |-> "matrix", out |-> Value(transformation_matrix(U, A))]
    /\ UNCHANGED <<lists, given, self, outcome, mutations>>

\* --------------------------------------------------- minimal_polynomial
\* One step of the shortest-recurrence synthesis on the sample s at its
\* 0-based index n.  C is the connection polynomial 1 + c_1 x + ... + c_L x^L
\* (s_t + c_1 s_{t-1} + ... + c_L s_{t-L} = 0), B the one before the last
\* change of length, b its discrepancy, m the shift since then.
BMStep(st, s, n) ==
    LET N == Len(s)
        disc == FracSum(List([i \in 1..(st.L + 1) |-> FracScale(Nth(s, n + 2 - i), Nth(st.C, i))]))
        coef == FracQuo(disc, st.b)
        C2 == List([k \in 1..(N + 1) |->
                 IF k - st.m >= 1
                 THEN FracSub(Nth(st.C, k), FracMul(coef, Nth(st.B, k - st.m)))
                 ELSE Nth(st.C, k)])
    IN IF disc.num = 0 THEN [st EXCEPT !.m = @ + 1]
       ELSE IF 2 * st.L <= n
            THEN [C |-> C2, B |-> st.C, L |-> n + 1 - st.L, m |-> 1, b |-> disc]
            ELSE [st EXCEPT !.C = C2, !.m = @ + 1]

RECURSIVE BMRun(_, _, _)
BMRun(st, s, n) == IF n = Len(s) THEN st ELSE BMRun(BMStep(st, s, n), s, n + 1)

\* berlekamp_massey(s): the monic polynomial over QQ (constant term first) of
\* the shortest linear recurrence the sample satisfies; an odd number of
\* terms is refused
berlekamp_massey(s) ==
    IF Len(s) % 2 = 1 THEN Raise("ValueError")
    ELSE LET one == List([k \in 1..(Len(s) + 1) |-> Frac(IF k = 1 THEN 1 ELSE 0, 1)])
             st == BMRun([C |-> one, B |-> one, L |-> 0, m |-> 1, b |-> Frac(1, 1)], s, 0)
         IN Value(List([j \in 1..(st.L + 1) |-> Nth(st.C, st.L - j + 2)]))

\* [self(self.d+i) for i in range(self.d)]
LaterTermsFromZero(u, a, d) == List([i \in 1..d |-> Call(u, a, i - 1, 0)])

LaterTerms(u, a, d) == List([i \in 1..d |-> Call(u, a, d + i - 1, 0)])

\* input = self.u+[self(self.d+i) for i in range(self.d)]
MinPolyInput(u, a, d) ==
    LET later == LaterTerms(u, a, d)
    IN u \o List([i \in 1..d |-> Nth(later, i).val])

minimal_polynomial(u, a, d) ==
    IF Len(u) # Len(a) THEN Call(u, a, d, 0)
    ELSE berlekamp_massey(MinPolyInput(u, a, d))

MinimalPolynomial ==
    /\ Ready
    /\ res' = [op |-> "minpoly", out |-> minimal_polynomial(U, A, self.d)]
    /\ UNCHANGED <<lists, given, self, outcome, mutations>>

\* --------------------------------------------------------------- __eq__
\* (self.u == other.u) and (self.a == other.a)
EqOnlyU(su, sa, ou, oa) == ListEq(su, ou)

Eq(su, sa, ou, oa) == ListEq(su, ou) /\ ListEq(sa, oa)

\* lists near s: s itself, s with one entry changed, s with one more entry
Variants(s) ==
    {s} \cup {[s EXCEPT ![p] = 1 - s[p]] : p \in 1..Len(s)} \cup {Append(s, 0)}

\* the (u, a) of the constructed sequences near (u, a)
Others(u, a) ==
    {o \in Variants(u) \X Variants(a) : InitOutcome(o[1], o[2]) = "ok"}

Equals(other) ==
    /\ Ready
    /\ res' = [op |-> "equals", other |-> other,
               out |-> Value(Eq(U, A, other[1], other[2]))]
    /\ UNCHANGED <<lists, given, self, outcome, mutations>>

\* ------------------------------------------------------------- __repr__
\* the pieces of the string, in order: d, the pairs (a[i], d-i-1) and the
\* pairs (i, u[i]) for i in range(d)
Repr(u, a, d) ==
    IF Len(u) < d \/ Len(a) < d THEN Raise("IndexError")
    ELSE Value([order |-> d,
                definition |-> List([i \in 1..d |-> <<Nth(a, i), d - i>>]),
                initial |-> List([i \in 1..d |-> <<i - 1, Nth(u, i)>>])])

Describe ==
    /\ Ready
    /\ res' = [op |-> "describe", out |-> Repr(U, A, self.d)]
    /\ UNCHANGED <<lists, given, self, outcome, mutations>>

\* ------------------------------------------------- the caller's lists
\* the caller still holds the lists it passed: l[p] = v and l.append(v)
CallerSetItem(ref, p, v) ==
    /\ outcome = "ok" /\ res = NoResult /\ mutations < MaxMut
    /\ p \in 1..Len(lists[ref])
    /\ lists[ref][p] # v
    /\ lists' = [lists EXCEPT ![ref] = [@ EXCEPT ![p] = v]]
    /\ mutations' = mutations + 1
    /\ UNCHANGED <<given, self, outcome, res>>

CallerAppend(ref, v) ==
    /\ outcome = "ok" /\ res = NoResult /\ mutations < MaxMut
    /\ lists' = [lists EXCEPT ![ref] = Append(@, v)]
    /\ mutations' = mutations + 1
    /\ UNCHANGED <<given, self, outcome, res>>

Next ==
    \/ New
    \/ Return
    \/ \E n \in (-MaxNeg)..MaxN, m \in (-MaxMod)..MaxMod : Term(n, m)
    \/ CharacteristicPolynomial
    \/ MinimalPolynomial
    \/ TransformationMatrix
    \/ Ready /\ \E other \in Others(U, A) : Equals(other)
    \/ Describe

Spec == Init /\ [][Next]_vars

\* the same program with a caller that goes on using its two lists
NextAlias ==
    \/ Next
    \/ \E ref \in {"ru", "ra"}, p \in 1..(MaxLen + MaxMut), v \in {0, 1} :
          CallerSetItem(ref, p, v)
    \/ \E ref \in {"ru", "ra"}, v \in {0, 1} : CallerAppend(ref, v)

SpecAlias == Init /\ [][NextAlias]_vars
\* ================================================================ claims
\* the sequence the recurrence defines, computed term by term:
\* r_i = u[i] for i < d, r_n = a_0*r_{n-1} + ... + a_{d-1}*r_{n-d}
RECURSIVE RefTerms(_, _, _)
RefTerms(u, a, k) ==
    IF k <= Len(u) THEN SubSeq(u, 1, k)
    ELSE LET prev == RefTerms(u, a, k - 1)
         IN Append(prev, SumSeq(List([i \in 1..Len(a) |-> Nth(a, i) * Nth(prev, k - i)])))

RefTerm(u, a, n) == Nth(RefTerms(u, a, n + 1), n + 1)

\* C1: for a constructed sequence and n >= 0, term(n) with modulus 0 is the
\* n-th term of the sequence the recurrence defines from u (so term(0) = u[0])
TermIsReferenceTerm ==
    (res.op = "term" /\ res.n >= 0 /\ res.modulus = 0)
        => res.out = Value(RefTerm(U, A, res.n))

\* a term beyond the initial ones, with a value no initial term has
TermBeyondInitial ==
    /\ res.op = "term" /\ res.modulus = 0 /\ res.n > self.d
    /\ res.out.kind = "value" /\ res.out.val < -1
    /\ Nth(A, 1) # Nth(A, self.d)

\* C2: the outcome of construction is decided by the two lengths alone:
\* LengthMismatch when they differ (also when both are below 3), else
\* UnsupportedOrder below 2, else UseBinarySpecialization at 2, else success
\* with u and a stored as given and d = len(u)
ConstructionOutcome ==
    outcome # "pending" =>
        LET lu == Len(given.u)
            la == Len(given.a)
        IN /\ lu # la => outcome = "LengthMismatch"
           /\ (lu = la /\ lu < 2) => outcome = "UnsupportedOrder"
           /\ (lu = la /\ lu = 2) => outcome = "UseBinarySpecialization"
           /\ (lu = la /\ lu >= 3) =>
                 /\ outcome = "ok"
                 /\ U = given.u /\ A = given.a /\ self.d = lu

\* two lists of different lengths, both below 3, were refused
MismatchBelowThree ==
    /\ outcome = "LengthMismatch"
    /\ Len(given.u) < 3 /\ Len(given.a) < 3 /\ Len(given.u) > 0

\* C3: for n >= 0 and a positive modulus m, term(n, m) is term(n) mod m, the
\* residue in 0..m-1 also of a negative term; term(n, 1) = 0
ReducedTermIsResidue ==
    (res.op = "term" /\ res.n >= 0 /\ res.modulus > 0)
        => /\ res.out = Value(Call(U, A, res.n, 0).val % res.modulus)
           /\ res.out.val \in 0..(res.modulus - 1)
           /\ res.modulus = 1 => res.out.val = 0

\* a negative term reduced to a nonzero residue
NegativeTermReduced ==
    /\ res.op = "term" /\ res.n >= 0 /\ res.modulus > 1
    /\ Call(U, A, res.n, 0).val < 0
    /\ res.out.val > 0
\* ---- polynomials and determinants the claims are stated with
\* s satisfies s_t = c[1]*s_{t-1} + ... + c[L]*s_{t-L} wherever all of these
\* are entries of s
Satisfies(c, s) ==
    LET L == Len(c)
    IN \A t \in (L + 1)..Len(s) :
          Nth(s, t) = SumSeq(List([j \in 1..L |-> Nth(c, j) * Nth(s, t - j)]))

\* the remainder of f on division by the monic g (constant terms first)
RECURSIVE PolyRem(_, _)
PolyRem(f, g) ==
    IF Len(f) < Len(g) THEN f
    ELSE LET lead == Nth(f, Len(f))
             shift == Len(f) - Len(g)
             cut == List([k \in 1..(Len(f) - 1) |->
                        IF k > shift THEN Nth(f, k) - lead * Nth(g, k - shift)
                        ELSE Nth(f, k)])
         IN PolyRem(cut, g)

\* M without its first row and its j-th column
Minor(M, j) ==
    List([i \in 1..(Len(M) - 1) |->
        List([k \in 1..(Len(M) - 1) |-> Entry(M, i + 1, IF k < j THEN k ELSE k + 1)])])

RECURSIVE Det(_)
Det(M) ==
    IF Len(M) = 0 THEN 1
    ELSE SumSeq(List([j \in 1..Len(M) |->
            (IF j % 2 = 1 THEN 1 ELSE -1) * Entry(M, 1, j) * Det(Minor(M, j))]))

\* the L x L matrix of s_{i+j}, 0 <= i, j < L
Hankel(s, L) == List([i \in 1..L |-> List([j \in 1..L |-> Nth(s, i + j - 1)])])

\* C4: minimalPolynomial() is monic with integer coefficients, the sequence
\* satisfies its recurrence (checked on the first 3d terms), no recurrence of
\* lower order is satisfied (the Hankel matrix of its order is regular), it
\* divides characteristicPolynomial() with zero remainder, and its degree is
\* below d exactly when the initial terms are degenerate relative to a (the
\* d x d Hankel matrix of the sequence is singular), as for all-zero u
MinimalPolynomialIsMinimal ==
    res.op = "minpoly" =>
        /\ res.out.kind = "value"
        /\ LET p == res.out.val
               L == Len(p) - 1
               d == self.d
               terms == RefTerms(U, A, 3 * d)
               c == List([j \in 1..L |-> -Nth(p, L + 1 - j).num])
               nums == List([k \in 1..(L + 1) |-> Nth(p, k).num])
           IN /\ \A k \in 1..(L + 1) : Nth(p, k).den = 1
              /\ Nth(p, L + 1).num = 1
              /\ L <= d
              /\ Satisfies(c, terms)
              /\ Det(Hankel(terms, L)) # 0
              /\ \A k \in 1..L : Nth(PolyRem(characteristic_polynomial(U, A), nums), k) = 0
              /\ Len(PolyRem(characteristic_polynomial(U, A), nums)) = L
              /\ (L < d) <=> (Det(Hankel(terms, d)) = 0)
              /\ (\A i \in 1..d : Nth(U, i) = 0) => L = 0

\* a degenerate sequence that is not the zero sequence
DegenerateNonzero ==
    /\ res.op = "minpoly" /\ res.out.kind = "value"
    /\ Len(res.out.val) - 1 < self.d
    /\ Len(res.out.val) - 1 > 1

\* C5: characteristicPolynomial() has degree d, leading coefficient 1 and
\* -a_i as its coefficient of x^(d-1-i); it is the same for every u
CharacteristicPolynomialShape ==
    res.op = "charpoly" =>
        LET p == res.out.val
            d == self.d
        IN /\ Len(p) = d + 1
           /\ Nth(p, d + 1) = 1
           /\ \A i \in 0..(d - 1) : Nth(p, d - i) = -Nth(A, i + 1)
           /\ \A u2 \in Variants(U) : characteristic_polynomial(u2, A) = p

\* a characteristic polynomial with zero constant term and unequal outer
\* coefficients
CharacteristicPolynomialZeroConstant ==
    /\ res.op = "charpoly"
    /\ Nth(A, self.d) = 0 /\ Nth(A, 1) # 0

\* C6: term(n, modulus) with n < 0 returns no value (it fails, as InvalidIndex)
NegativeIndexFails ==
    (res.op = "term" /\ res.n < 0) => res.out.kind # "value"

\* C7: term(n, modulus) with a negative modulus returns no value (it fails,
\* as InvalidModulus)
NegativeModulusFails ==
    (res.op = "term" /\ res.n >= 0 /\ res.modulus < 0) => res.out.kind # "value"

\* C8: equals(other) is true exactly when the u lists and the a lists agree
\* in length and entry by entry; the relation is reflexive, symmetric and
\* transitive
EqualsIsElementwise ==
    res.op = "equals" =>
        LET ou == res.other[1]
            oa == res.other[2]
        IN /\ res.out.val <=>
                 /\ Len(U) = Len(ou) /\ Len(A) = Len(oa)
                 /\ \A i \in 1..Len(U) : U[i] = ou[i]
                 /\ \A i \in 1..Len(A) : A[i] = oa[i]
           /\ Eq(U, A, U, A)
           /\ Eq(ou, oa, U, A) = res.out.val
           /\ \A z \in Others(ou, oa) :
                 (res.out.val /\ Eq(ou, oa, z[1], z[2])) => Eq(U, A, z[1], z[2])

\* two sequences with the same u and different a compared unequal
SameInitialTermsUnequal ==
    /\ res.op = "equals"
    /\ res.other[1] = U /\ res.other[2] # A
    /\ res.out.val = FALSE

\* C9: transformationMatrix() is the d x d matrix with ones above the
\* diagonal, last row (a_{d-1}, ..., a_0) and zeros elsewhere; it maps each
\* window (u_k, ..., u_{k+d-1}) to the next one; it is the matrix term()
\* raises to the n-th power, and it is the same for every u
TransformationMatrixIsCompanion ==
    res.op = "matrix" =>
        LET C == res.out.val
            d == self.d
            terms == RefTerms(U, A, 3 * d)
        IN /\ Len(C) = d
           /\ \A i \in 1..d : Len(C[i]) = d
           /\ \A i \in 1..d, j \in 1..d :
                 C[i][j] = IF i < d THEN (IF j = i + 1 THEN 1 ELSE 0)
                           ELSE Nth(A, d + 1 - j)
           /\ \A k \in 1..(2 * d) :
                 MatVec(0, C, SubSeq(terms, k, k + d - 1)) = SubSeq(terms, k + 1, k + d)
           /\ C = companion_matrix(CallCharpoly(A))
           /\ \A u2 \in Variants(U) : transformation_matrix(u2, A) = C

\* the matrix of a recurrence whose outer coefficients differ
TransformationMatrixAsymmetric ==
    /\ res.op = "matrix"
    /\ Nth(A, 1) # Nth(A, self.d)

\* C10: a constructed object keeps len(u) = len(a) = d >= 3 and the u, a it
\* was constructed with, whatever is called and whatever the caller does to
\* the lists it passed
ObjectUnchanged ==
    outcome = "ok" =>
        /\ Len(U) = self.d /\ Len(A) = self.d /\ self.d >= 3
        /\ U = given.u /\ A = given.a
====
